---- MODULE Spec2Model ----
(***************************************************************************)
(* Transaction import pipeline of the budget backend                       *)
(* (backend/src/routes/import.ts): upload (stageImport), the staged-row    *)
(* edit surface (update / delete) and commit, over the staged_expenses     *)
(* and expenses tables.                                                    *)
(*                                                                         *)
(* One action is one request, run from its first statement to its         *)
(* response.  A handler awaits its database statements one by one and any  *)
(* of them may throw (connection lost, constraint violated): the handler's *)
(* catch block then answers 500 and nothing that was already written is    *)
(* undone, because no handler opens a database transaction.  The statement *)
(* that throws, if any, is the input failAt of the action.                 *)
(*                                                                         *)
(* Requests that overlap are modelled one awaited statement at a time      *)
(* (the calls in flight), and the quote cache of lib/stock-cache.ts is     *)
(* modelled beside the pipeline.                                           *)
(***************************************************************************)
EXTENDS Integers, Sequences, FiniteSets, TLC

\* ------------------------------------------------------------------ bounds
MaxId == 3          \* rows ever inserted (staged rows and ledger entries)
MaxEdits == 2       \* PUT /staged/:id requests the client sends

\* ------------------------------------------------------------------ values
NULL == "<null>"    \* SQL NULL / JS null in a string-valued field
NoId == 0           \* SQL NULL in an id-valued field (ids start at 1)
NaN == -1           \* JS NaN (never equal to anything, falsy)
NoTarget == 0       \* yearMonth form field absent: targetYearMonth = null

Users == {"u1", "u2"}
Months == {202601, 202602}
Targets == Months \cup {NoTarget}

\* Dates as the extractor writes them: a calendar day, or a string that
\* new Date() cannot parse (the missing date included).
BadDate == [y |-> 0, m |-> 0, d |-> 0]
Jan15 == [y |-> 2026, m |-> 1, d |-> 15]
Feb10 == [y |-> 2026, m |-> 2, d |-> 10]

\* Titles are sequences of characters so that trim() is computed.
Cafe == <<"C", "a", "f", "e">>
CafePadded == <<" ", "C", "a", "f", "e", " ">>
Rent == <<"R", "e", "n", "t">>

\* The raw transactions the extraction service returns.
RawCafe == [date |-> Jan15, amount |-> -4500, title |-> Cafe, source |-> "bank", isShared |-> FALSE]
RawPadded == [date |-> Jan15, amount |-> -4500, title |-> CafePadded, source |-> "bank", isShared |-> FALSE]
RawRent == [date |-> Feb10, amount |-> -120000, title |-> Rent, source |-> "", isShared |-> FALSE]

\* Numbers are written in halves of a minor unit, so that a JS number that
\* is no integer can be written: -4501 is -2250.5 minor units.
RawFraction == [date |-> Jan15, amount |-> -4501, title |-> Cafe, source |-> "bank", isShared |-> FALSE]

\* A transaction whose date is missing or cannot be parsed.
RawUndated == [date |-> BadDate, amount |-> -4500, title |-> Cafe, source |-> "bank", isShared |-> FALSE]

\* A second transaction of February.
Gym == <<"G", "y", "m">>
RawGym == [date |-> Feb10, amount |-> -30000, title |-> Gym, source |-> "bank", isShared |-> FALSE]

\* The transaction lists the extraction service returns for the files uploaded.
ExtractorOutputs ==
  { <<RawCafe>>, <<RawPadded>>, <<RawRent>>, <<RawCafe, RawCafe>>, <<RawCafe, RawRent>>,
    <<RawCafe, RawUndated>> }

\* Request bodies of POST /expenses (an expense entered by hand).
ManualExpenses ==
  { [date |-> Feb10, amount |-> -120000, title |-> Rent, yearMonth |-> 202602] }

\* Request bodies of PUT /staged/:id (partial records: only the fields sent).
EmptyBody == [f \in {} |-> 0]
Bodies ==
  { [collectToMe |-> 3000],
    [collectFromMe |-> 2000],
    [amount |-> -1000],
    [categoryId |-> "c1"],
    [amount |-> -1001],
    [title |-> Rent, isShared |-> TRUE, notes |-> "n"],
    [collectToMe |-> 3000, isDuplicate |-> FALSE, duplicateOf |-> NoId,
     yearMonth |-> 202602, userId |-> "u2"],
    EmptyBody }

\* The categories table: the user each category belongs to.
CategoryOwner == [c \in {"c1"} |-> "u1"]

\* The body the review page sends when a category is picked for a staged
\* row (one request per selected row for a bulk change): picking
\* "uncategorized" makes categoryId undefined, and JSON.stringify leaves an
\* undefined field out.
CategoryUpdate(categoryId) ==
  IF categoryId = "uncategorized" THEN EmptyBody ELSE [categoryId |-> categoryId]

VARIABLES
  staged,   \* staged_expenses table, in heap order
  ledger,   \* expenses table, in heap order
  nextId,   \* next fresh row id (uuid defaultRandom)
  edits,    \* PUT /staged/:id requests sent so far
  resp,     \* the HTTP response of the last request
  calls,    \* the requests in flight, one per client session
  quoteCache, \* the Map quoteCache of lib/stock-cache.ts
  now,      \* Date.now(), in milliseconds since the server started
  served    \* what the last quote lookup returned

\* The state of lib/stock-cache.ts.
stockVars == <<quoteCache, now, served>>

vars == <<staged, ledger, nextId, edits, resp, calls, quoteCache, now, served>>

None == [op |-> "none", status |-> 0]

\* ------------------------------------------------------------- pure helpers
IsSpace(ch) == ch = " "

RECURSIVE TrimStart(_)
TrimStart(t) ==
  IF Len(t) > 0 /\ IsSpace(Head(t)) THEN TrimStart(Tail(t)) ELSE t

RECURSIVE TrimEnd(_)
TrimEnd(t) ==
  IF Len(t) > 0 /\ IsSpace(t[Len(t)]) THEN TrimEnd(SubSeq(t, 1, Len(t) - 1)) ELSE t

\* String.prototype.trim
Trim(t) == TrimEnd(TrimStart(t))

\* function dateToYearMonth(dateStr)
dateToYearMonth(date) ==
  IF date = BadDate THEN NaN ELSE date.y * 100 + date.m

\* JS === on numbers
StrictEq(a, b) == a # NaN /\ b # NaN /\ a = b

\* Number.isInteger(x), for a number written in halves of a minor unit
IsInteger(x) == x % 2 = 0

\* JS (x || null) on a string
OrNull(x) == IF x = "" \/ x = NULL THEN NULL ELSE x

\* Faulty variant: the upload keeps every transaction of the file.
FilterByMonth_All(raw, target) == raw

\* transactions.filter(tx => dateToYearMonth(tx.date) === targetYearMonth)
FilterByMonth(raw, target) ==
  IF target # NoTarget
  THEN SelectSeq(raw, LAMBDA tx : StrictEq(dateToYearMonth(tx.date), target))
  ELSE raw

\* Faulty variant: the upload does not clear the month before it stages.
UploadClear_Kept(st, user, ym) == st

\* db.delete(stagedExpenses).where(userId = user and yearMonth = target), upload
UploadClear(st, user, ym) ==
  SelectSeq(st, LAMBDA r : ~(r.userId = user /\ r.yearMonth = ym))

\* Faulty variant: the month's entries of every user are read.
ExistingExpenses_AnyUser(led, user, ym) ==
  SelectSeq(led, LAMBDA e : e.yearMonth = ym)

\* db.query.expenses.findMany(where userId = user and yearMonth = ym)
ExistingExpenses(led, user, ym) ==
  SelectSeq(led, LAMBDA e : e.userId = user /\ e.yearMonth = ym)

\* The month whose ledger entries the upload reads for duplicate detection.
YearMonthToCheck(target, transactions, nowYM) ==
  IF target # NoTarget THEN target
  ELSE IF Len(transactions) > 0 /\ transactions[1].date # BadDate
       THEN dateToYearMonth(transactions[1].date)
       ELSE nowYM

\* Faulty variant: the entry's title is compared as stored, untrimmed.
IsMatch_NoTrim(e, yearMonth, amount, title, source) ==
  /\ StrictEq(e.yearMonth, yearMonth)
  /\ e.amount = amount
  /\ e.title = title
  /\ OrNull(e.source) = source

\* The predicate of existingExpenses.find(...)
IsMatch(e, yearMonth, amount, title, source) ==
  /\ StrictEq(e.yearMonth, yearMonth)
  /\ e.amount = amount
  /\ Trim(e.title) = title
  /\ OrNull(e.source) = source

\* existingExpenses.find(...): index of the first match, 0 when there is none
FindDuplicate(existing, yearMonth, amount, title, source) ==
  LET hits == {k \in 1..Len(existing) : IsMatch(existing[k], yearMonth, amount, title, source)}
  IN IF hits = {} THEN 0 ELSE CHOOSE k \in hits : \A j \in hits : k <= j

\* The row inserted into staged_expenses for one transaction.
StagingEntry(id, user, tx, target, existing) ==
  LET yearMonth == IF target # NoTarget THEN target ELSE dateToYearMonth(tx.date)
      k == FindDuplicate(existing, yearMonth, tx.amount, Trim(tx.title), OrNull(tx.source))
  IN [ id |-> id,
       userId |-> user,
       categoryId |-> NULL,
       date |-> tx.date,
       amount |-> tx.amount,
       title |-> tx.title,
       source |-> OrNull(tx.source),
       isShared |-> tx.isShared,
       isDuplicate |-> k # 0,
       duplicateOf |-> IF k # 0 THEN existing[k].id ELSE NoId,
       yearMonth |-> yearMonth,
       collectToMe |-> 0,
       collectFromMe |-> 0,
       notes |-> NULL,
       sortIndex |-> 0 ]

\* GET /staged?yearMonth=: the user's staged rows of that month
StagedOf(st, user, ym) ==
  SelectSeq(st, LAMBDA r : r.userId = user /\ r.yearMonth = ym)

\* ------------------------------------------------------------------ upload
\* Faulty variant: the month is cleared before the extractor is called.
BeforeExtract_Purged(st, user, target) ==
  IF target # NoTarget THEN UploadClear(st, user, target) ELSE st

\* What POST /upload has done to staged_expenses when the extractor call
\* returns: no statement runs before it.
BeforeExtract(st, user, target) == st

\* POST /upload when the extractor call fails: the service answers with an
\* error status, which is relayed with its detail, or fetch throws and the
\* catch block answers 500.
UploadExtractFails(user, target, outcome) ==
  /\ staged' = BeforeExtract(staged, user, target)
  /\ resp' = IF outcome = "rejected"
             THEN [op |-> "upload", status |-> 400, message |-> "Extraction failed"]
             ELSE [op |-> "upload", status |-> 500, message |-> "Upload failed"]
  /\ UNCHANGED <<ledger, nextId, edits, calls, stockVars>>

\* The statements of POST /upload after the extraction, in order:
\* 1 the purge (only with a target), 2 the read of the existing expenses,
\* 2 + k the insert of the k-th transaction.
PurgeStmt == 1
ReadStmt == 2
InsertStmt(k) == 2 + k

\* Faulty variant: a transaction that repeats an earlier one of the same
\* file is flagged duplicate.
StagingEntries_Dedup(firstId, user, transactions, target, existing) ==
  [k \in 1..Len(transactions) |->
     LET e == StagingEntry(firstId + k - 1, user, transactions[k], target, existing)
     IN IF \E j \in 1..(k - 1) : transactions[j] = transactions[k]
        THEN [e EXCEPT !.isDuplicate = TRUE]
        ELSE e]

\* The rows "for (const tx of transactions)" inserts, one per transaction.
StagingEntries(firstId, user, transactions, target, existing) ==
  [k \in 1..Len(transactions) |->
     StagingEntry(firstId + k - 1, user, transactions[k], target, existing)]

\* A value the bigint column amount takes: PostgreSQL refuses any other
\* ("invalid input syntax for type bigint").
BigintAccepts(x) == IsInteger(x)

\* The first insert the database refuses (a yearMonth that is NaN: integer
\* NOT NULL column; an amount that is no integer: bigint column), or the one
\* told to throw; Len + 1 when none does.
FirstFailingInsert(rows, failAt) ==
  LET bad == {k \in 1..Len(rows) : \/ rows[k].yearMonth = NaN
                                    \/ ~BigintAccepts(rows[k].amount)
                                    \/ failAt = InsertStmt(k)}
  IN IF bad = {} THEN Len(rows) + 1 ELSE CHOOSE k \in bad : \A j \in bad : k <= j

\* The rows POST /upload inserts before it answers, given the staged rows
\* and the ledger it runs on.
UploadInserted(led, firstId, user, target, raw, nowYM, failAt) ==
  LET transactions == FilterByMonth(raw, target)
      existing == ExistingExpenses(led, user, YearMonthToCheck(target, transactions, nowYM))
      rows == StagingEntries(firstId, user, transactions, target, existing)
  IN IF failAt \in {PurgeStmt, ReadStmt} THEN <<>>
     ELSE SubSeq(rows, 1, FirstFailingInsert(rows, failAt) - 1)

\* staged_expenses after POST /upload.
UploadStaged(st, led, firstId, user, target, raw, nowYM, failAt) ==
  LET before == BeforeExtract(st, user, target)
      purged == IF target # NoTarget /\ failAt # PurgeStmt
                THEN UploadClear(before, user, target) ELSE before
  IN purged \o UploadInserted(led, firstId, user, target, raw, nowYM, failAt)

\* POST /upload once the extraction service has returned the transactions.
\* failAt = 0: no statement throws.
Upload(user, target, raw, nowYM, failAt) ==
  LET transactions == FilterByMonth(raw, target)
      inserted == UploadInserted(ledger, nextId, user, target, raw, nowYM, failAt)
  IN /\ failAt \in 0..InsertStmt(Len(transactions))
     /\ failAt = PurgeStmt => target # NoTarget
     /\ nextId + Len(transactions) - 1 <= MaxId
     /\ staged' = UploadStaged(staged, ledger, nextId, user, target, raw, nowYM, failAt)
     /\ nextId' = nextId + Len(inserted)
     /\ resp' = IF failAt \in {PurgeStmt, ReadStmt} \/ Len(inserted) < Len(transactions)
                THEN [op |-> "upload", status |-> 500, message |-> "Upload failed"]
                ELSE [op |-> "upload", status |-> 200,
                      staged |-> Len(inserted),
                      duplicates |-> Cardinality({k \in 1..Len(inserted) :
                                                    inserted[k].isDuplicate}),
                      filteredByMonth |-> Len(raw) - Len(transactions)]
     /\ UNCHANGED <<ledger, edits, calls, stockVars>>

\* ------------------------------------------------------------------ staged
\* Faulty variant: the schema lets the bookkeeping columns through.
SchemaFields_Loose ==
  {"categoryId", "title", "amount", "date", "notes", "isShared", "collectToMe", "collectFromMe",
   "isDuplicate", "duplicateOf", "yearMonth", "userId"}

\* The fields the zod schema of PUT /staged/:id keeps; other keys are stripped.
SchemaFields ==
  {"categoryId", "title", "amount", "date", "notes", "isShared", "collectToMe", "collectFromMe"}

\* Faulty variant: z.number() without .int()
ZodInt_Any(x) == TRUE

\* z.number().int()
ZodInt(x) == IsInteger(x)

\* z.object({...}).parse(body) does not throw a ZodError
SchemaAccepts(body) ==
  \A f \in (DOMAIN body) \cap {"amount", "collectToMe", "collectFromMe"} : ZodInt(body[f])

\* z.object({...}).parse(body)
ParseBody(body) == [f \in (DOMAIN body) \cap SchemaFields |-> body[f]]

\* Faulty variant: the settlement fields the body leaves out are reset.
ApplyUpdate_Reset(row, data) ==
  [f \in DOMAIN row |->
     IF f \in DOMAIN data THEN data[f]
     ELSE IF f \in {"collectToMe", "collectFromMe"} THEN 0
     ELSE row[f]]

\* .set({...}): a field that is undefined is not written; a categoryId that
\* is sent is written as (categoryId || null).
ApplyUpdate(row, data) ==
  [f \in DOMAIN row |->
     IF f \in DOMAIN data
     THEN IF f = "categoryId" THEN OrNull(data[f]) ELSE data[f]
     ELSE row[f]]

\* .where(id = stagedId and userId = user.id)
Addressed(st, user, id) == {k \in 1..Len(st) : st[k].id = id /\ st[k].userId = user}

\* staged_expenses after the UPDATE statement of PUT /staged/:id.
UpdatedStaged(st, user, id, data) ==
  [k \in 1..Len(st) |->
     IF k \in Addressed(st, user, id) THEN ApplyUpdate(st[k], data) ELSE st[k]]

\* The response of PUT /staged/:id.  An update with no field to set throws
\* before it reaches the database ("No values to set") and is answered 500.
UpdateResponse(st, user, id, data) ==
  IF ~SchemaAccepts(data)
  THEN [op |-> "update", status |-> 400, message |-> "Invalid input"]
  ELSE IF DOMAIN data = {}
  THEN [op |-> "update", status |-> 500, message |-> "Failed to update staged expense"]
  ELSE IF Addressed(st, user, id) = {}
  THEN [op |-> "update", status |-> 404, message |-> "Staged expense not found"]
  ELSE [op |-> "update", status |-> 200,
        row |-> ApplyUpdate(st[CHOOSE k \in Addressed(st, user, id) : TRUE], data)]

\* PUT /staged/:id
UpdateStaged(user, id, body) ==
  /\ edits < MaxEdits
  /\ edits' = edits + 1
  /\ LET data == ParseBody(body)
     IN /\ resp' = UpdateResponse(staged, user, id, data)
        /\ staged' = IF resp'.status = 200 THEN UpdatedStaged(staged, user, id, data)
                     ELSE staged
  /\ UNCHANGED <<ledger, nextId, calls, stockVars>>

\* DELETE /staged/:id
DeleteStaged(user, id) ==
  /\ staged' = SelectSeq(staged, LAMBDA r : ~(r.id = id /\ r.userId = user))
  /\ resp' = [op |-> "delete",
              status |-> IF Addressed(staged, user, id) = {} THEN 404 ELSE 204]
  /\ UNCHANGED <<ledger, nextId, edits, calls, stockVars>>

\* ------------------------------------------------------------------ ledger
\* POST /expenses: an expense entered by hand (no source, no source file).
ManualEntry(id, user, data) ==
  [ id |-> id,
    userId |-> user,
    categoryId |-> NULL,
    date |-> data.date,
    amount |-> data.amount,
    title |-> data.title,
    notes |-> NULL,
    source |-> NULL,
    sourceFile |-> NULL,
    isShared |-> FALSE,
    collectToMe |-> 0,
    collectFromMe |-> 0,
    settled |-> FALSE,
    yearMonth |-> data.yearMonth,
    stagedId |-> NoId ]

CreateExpense(user, data) ==
  /\ nextId <= MaxId
  /\ ledger' = Append(ledger, ManualEntry(nextId, user, data))
  /\ nextId' = nextId + 1
  /\ resp' = [op |-> "create", status |-> 201]
  /\ UNCHANGED <<staged, edits, calls, stockVars>>

\* staged_expenses after an expense is deleted: duplicateOf references
\* expenses.id with ON DELETE SET NULL; isDuplicate is a plain column.
DuplicateOfSetNull(st, gone) ==
  [k \in 1..Len(st) |->
     IF st[k].duplicateOf \in gone THEN [st[k] EXCEPT !.duplicateOf = NoId] ELSE st[k]]

\* DELETE /expenses/:id
DeleteExpense(user, id) ==
  LET gone == {ledger[i].id : i \in {j \in 1..Len(ledger) :
                                       ledger[j].id = id /\ ledger[j].userId = user}}
  IN /\ ledger' = SelectSeq(ledger, LAMBDA e : ~(e.id = id /\ e.userId = user))
     /\ staged' = DuplicateOfSetNull(staged, gone)
     /\ resp' = [op |-> "deleteExpense", status |-> IF gone = {} THEN 404 ELSE 204]
     /\ UNCHANGED <<nextId, edits, calls, stockVars>>

\* ------------------------------------------------------------------ commit
\* Faulty variant: the rows to commit are matched against the ledger again.
ToCommit_Recheck(st, user, ym) ==
  SelectSeq(st, LAMBDA r :
    /\ r.userId = user /\ r.yearMonth = ym /\ r.isDuplicate = FALSE
    /\ FindDuplicate(ExistingExpenses(ledger, user, ym), r.yearMonth, r.amount,
                     Trim(r.title), r.source) = 0)

\* findMany(where userId = user and yearMonth = ym and isDuplicate = false)
ToCommit(st, user, ym) ==
  SelectSeq(st, LAMBDA r : r.userId = user /\ r.yearMonth = ym /\ r.isDuplicate = FALSE)

\* Faulty variant: no early return, an empty commit runs on to the purge.
NothingToCommit_Never(toCommit) == FALSE

\* if (toCommit.length === 0) return { committed: 0 }
NothingToCommit(toCommit) == Len(toCommit) = 0

\* Faulty variant: the entry does not take the row's source.
LedgerEntry_NoSource(id, user, row) ==
  [ id |-> id,
    userId |-> user,
    categoryId |-> row.categoryId,
    date |-> row.date,
    amount |-> row.amount,
    title |-> row.title,
    notes |-> row.notes,
    source |-> NULL,
    sourceFile |-> "import",
    isShared |-> row.isShared,
    collectToMe |-> row.collectToMe,
    collectFromMe |-> row.collectFromMe,
    settled |-> FALSE,
    yearMonth |-> row.yearMonth,
    stagedId |-> row.id ]

\* db.insert(expenses).values({...}) for one staged row.  stagedId is no
\* column: it records the staged row the entry was copied from.
LedgerEntry(id, user, row) ==
  [ id |-> id,
    userId |-> user,
    categoryId |-> row.categoryId,
    date |-> row.date,
    amount |-> row.amount,
    title |-> row.title,
    notes |-> row.notes,
    source |-> row.source,
    sourceFile |-> "import",
    isShared |-> row.isShared,
    collectToMe |-> row.collectToMe,
    collectFromMe |-> row.collectFromMe,
    settled |-> FALSE,
    yearMonth |-> row.yearMonth,
    stagedId |-> row.id ]

\* The entries "for (const staged of toCommit)" inserts, one per row.
LedgerEntries(firstId, user, toCommit) ==
  [k \in 1..Len(toCommit) |-> LedgerEntry(firstId + k - 1, user, toCommit[k])]

\* Faulty variant: the commit leaves the staged rows in place.
CommitClear_Kept(st, user, ym) == st

\* db.delete(stagedExpenses).where(userId = user and yearMonth = ym), commit
CommitClear(st, user, ym) ==
  SelectSeq(st, LAMBDA r : ~(r.userId = user /\ r.yearMonth = ym))

\* The statements of POST /commit after the read of the rows to commit, in
\* order: k the insert of the k-th ledger entry, n + 1 the purge.
CommitPurgeStmt(n) == n + 1

\* The ledger entries POST /commit has inserted when it answers.
CommitInserted(st, firstId, user, ym, failAt) ==
  LET toCommit == ToCommit(st, user, ym)
      entries == LedgerEntries(firstId, user, toCommit)
  IN IF NothingToCommit(toCommit) THEN <<>>
     ELSE IF failAt \in {0, CommitPurgeStmt(Len(toCommit))} THEN entries
     ELSE SubSeq(entries, 1, failAt - 1)

\* staged_expenses after POST /commit.
CommitStaged(st, user, ym, failAt) ==
  IF NothingToCommit(ToCommit(st, user, ym)) \/ failAt # 0
  THEN st
  ELSE CommitClear(st, user, ym)

\* POST /commit.  failAt = 0: no statement throws.
Commit(user, ym, failAt) ==
  LET toCommit == ToCommit(staged, user, ym)
      inserted == CommitInserted(staged, nextId, user, ym, failAt)
  IN /\ failAt \in 0..CommitPurgeStmt(Len(toCommit))
     /\ NothingToCommit(toCommit) => failAt = 0
     /\ nextId + Len(toCommit) - 1 <= MaxId
     /\ ledger' = ledger \o inserted
     /\ nextId' = nextId + Len(inserted)
     /\ staged' = CommitStaged(staged, user, ym, failAt)
     /\ resp' = IF failAt = 0
                THEN [op |-> "commit", status |-> 200, committed |-> Len(toCommit)]
                ELSE [op |-> "commit", status |-> 500, message |-> "Failed to commit expenses"]
     /\ UNCHANGED <<edits, calls, stockVars>>

\* ------------------------------------------------------ overlapping calls
\* A handler runs up to its next awaited statement and then yields, so the
\* statements of two requests in flight interleave.  calls[s] is the request
\* of session s: where it stands (pc) and the handler's local variables.
Sessions == {"a", "b"}

\* No request made yet by the session.
Idle == [pc |-> "idle"]

\* The local variables of a handler: rows is toCommit (commit) or
\* transactions (upload), k the loop position, existing the ledger entries
\* the upload read; purgedAt and ids record when the upload purged and the
\* rows it inserted.
Call(pc, op, user, ym, rows, k, existing, filtered, dups, purgedAt, ids, out) ==
  [pc |-> pc, op |-> op, user |-> user, ym |-> ym, rows |-> rows, k |-> k,
   existing |-> existing, filtered |-> filtered, dups |-> dups,
   purgedAt |-> purgedAt, ids |-> ids, out |-> out]

\* A session sends its next request when the last one has been answered.
CanCall(s) == calls[s].pc \in {"idle", "done"}

\* Faulty variant: the upload holds the month for itself, the rows another
\* request staged under it meanwhile do not survive its insert.
UploadAppend_Exclusive(st, row, own) ==
  Append(SelectSeq(st, LAMBDA r : ~(r.userId = row.userId /\ r.yearMonth = row.yearMonth)
                                     \/ r.id \in own),
         row)

\* await db.insert(stagedExpenses).values({...}); own are the ids of the
\* rows this request has inserted so far.
UploadAppend(st, row, own) == Append(st, row)

\* POST /upload with a target month, up to the end of its first statement:
\* the purge of the month.
UploadPurge(s, user, target, raw) ==
  /\ CanCall(s)
  /\ target # NoTarget
  /\ staged' = UploadClear(BeforeExtract(staged, user, target), user, target)
  /\ calls' = [calls EXCEPT ![s] =
       Call("read", "upload", user, target, FilterByMonth(raw, target), 1, <<>>,
            Len(raw) - Len(FilterByMonth(raw, target)), 0, nextId, {}, None)]
  /\ UNCHANGED <<ledger, nextId, edits, resp, stockVars>>

\* The response of POST /upload once its loop has ended.
UploadDone(c, dups) ==
  [op |-> "upload", status |-> 200, staged |-> Len(c.rows), duplicates |-> dups,
   filteredByMonth |-> c.filtered]

\* POST /upload: the read of the existing expenses.
UploadRead(s, nowYM) ==
  LET c == calls[s]
      existing == ExistingExpenses(ledger, c.user, YearMonthToCheck(c.ym, c.rows, nowYM))
  IN /\ c.pc = "read"
     /\ calls' = [calls EXCEPT ![s] =
          IF Len(c.rows) = 0
          THEN [c EXCEPT !.pc = "done", !.existing = existing, !.out = UploadDone(c, 0)]
          ELSE [c EXCEPT !.pc = "insert", !.existing = existing]]
     /\ resp' = IF Len(c.rows) = 0 THEN UploadDone(c, 0) ELSE resp
     /\ UNCHANGED <<staged, ledger, nextId, edits, stockVars>>

\* POST /upload: one turn of "for (const tx of transactions)", and the
\* response after the last.
UploadInsert(s) ==
  LET c == calls[s]
      row == StagingEntry(nextId, c.user, c.rows[c.k], c.ym, c.existing)
      dups == c.dups + (IF row.isDuplicate THEN 1 ELSE 0)
      refused == row.yearMonth = NaN \/ ~BigintAccepts(row.amount)
      failed == [op |-> "upload", status |-> 500, message |-> "Upload failed"]
      last == c.k = Len(c.rows)
  IN /\ c.pc = "insert" /\ c.op = "upload"
     /\ nextId <= MaxId
     /\ staged' = IF refused THEN staged ELSE UploadAppend(staged, row, c.ids)
     /\ nextId' = IF refused THEN nextId ELSE nextId + 1
     /\ calls' = [calls EXCEPT ![s] =
          IF refused THEN [c EXCEPT !.pc = "done", !.out = failed]
          ELSE IF last
          THEN [c EXCEPT !.pc = "done", !.k = c.k + 1, !.dups = dups,
                         !.ids = c.ids \cup {nextId}, !.out = UploadDone(c, dups)]
          ELSE [c EXCEPT !.k = c.k + 1, !.dups = dups, !.ids = c.ids \cup {nextId}]]
     /\ resp' = IF refused THEN failed ELSE IF last THEN UploadDone(c, dups) ELSE resp
     /\ UNCHANGED <<ledger, edits, stockVars>>

\* The response of POST /commit.
CommitDone(toCommit) ==
  [op |-> "commit", status |-> 200, committed |-> Len(toCommit)]

\* POST /commit up to the end of its first statement: the read of the rows
\* to commit, and the early return when there is none.
CommitRead(s, user, ym) ==
  LET toCommit == ToCommit(staged, user, ym)
      nothing == NothingToCommit(toCommit)
  IN /\ CanCall(s)
     /\ calls' = [calls EXCEPT ![s] =
          Call(IF nothing THEN "done" ELSE "insert", "commit", user, ym, toCommit, 1,
               <<>>, 0, 0, 0, {}, IF nothing THEN CommitDone(toCommit) ELSE None)]
     /\ resp' = IF nothing THEN CommitDone(toCommit) ELSE resp
     /\ UNCHANGED <<staged, ledger, nextId, edits, stockVars>>

\* Faulty variant: the entry is inserted only while its row is still staged.
CommitInsertRow_IfStaged(led, st, id, user, row) ==
  IF \E k \in 1..Len(st) : st[k].id = row.id
  THEN Append(led, LedgerEntry(id, user, row))
  ELSE led

\* await db.insert(expenses).values({...}) for the staged row that was read;
\* st is staged_expenses when the statement runs.
CommitInsertRow(led, st, id, user, row) == Append(led, LedgerEntry(id, user, row))

\* POST /commit: one turn of "for (const staged of toCommit)".
CommitInsert(s) ==
  LET c == calls[s]
  IN /\ c.pc = "insert" /\ c.op = "commit"
     /\ nextId <= MaxId
     /\ ledger' = CommitInsertRow(ledger, staged, nextId, c.user, c.rows[c.k])
     /\ nextId' = nextId + Len(ledger') - Len(ledger)
     /\ calls' = [calls EXCEPT ![s] =
          [c EXCEPT !.k = c.k + 1,
                    !.pc = IF c.k = Len(c.rows) THEN "purge" ELSE "insert"]]
     /\ UNCHANGED <<staged, edits, resp, stockVars>>

\* POST /commit: the purge of the month's staged rows, and the response.
CommitPurge(s) ==
  LET c == calls[s]
  IN /\ c.pc = "purge"
     /\ staged' = CommitClear(staged, c.user, c.ym)
     /\ calls' = [calls EXCEPT ![s] = [c EXCEPT !.pc = "done", !.out = CommitDone(c.rows)]]
     /\ resp' = CommitDone(c.rows)
     /\ UNCHANGED <<ledger, nextId, edits, stockVars>>

\* ------------------------------------------------------------ quote cache
\* lib/stock-cache.ts.  Time is Date.now() in milliseconds; the clock moves
\* in steps of TickMs, at most MaxTicks of them.
MaxTicks == 4
TickMs == 12 * 60 * 60 * 1000

\* const CACHE_TTL_MS
CACHE_TTL_MS == 24 * 60 * 60 * 1000

\* The tickers the clients ask for, and the prices the upstream service quotes.
Tickers == {"EQNR", "eqnr", "AAPL"}
Prices == {100, 110}

\* String.prototype.toUpperCase, on the tickers asked for
ToUpperCase(t) == IF t = "eqnr" THEN "EQNR" ELSE t

\* The keys quoteCache.set is called with.
Symbols == {ToUpperCase(t) : t \in Tickers}

\* new Map(): no key
NoQuotes == [k \in {} |-> 0]

\* The null a lookup returns, written as a quote of no ticker.
NullQuote == [ticker |-> NULL, price |-> 0, fetchedAt |-> 0]

\* No lookup made yet.
NoLookup == [fn |-> "none", ticker |-> NULL, ret |-> NullQuote, upstream |-> FALSE, at |-> 0]

\* Faulty variant: an entry never expires.
IsExpired_Never(age) == FALSE

\* if (age > CACHE_TTL_MS)
IsExpired(age) == age > CACHE_TTL_MS

\* quoteCache.delete(key)
MapDelete(cache, key) == [k \in (DOMAIN cache) \ {key} |-> cache[k]]

\* quoteCache.set(key, quote)
MapSet(cache, key, quote) ==
  [k \in (DOMAIN cache) \cup {key} |-> IF k = key THEN quote ELSE cache[k]]

\* quoteCache after getCachedQuote(ticker) at time t: an entry older than
\* the TTL is deleted
CacheAfterLookup(cache, ticker, t) ==
  LET key == ToUpperCase(ticker)
  IN IF key \in DOMAIN cache /\ IsExpired(t - cache[key].fetchedAt)
     THEN MapDelete(cache, key)
     ELSE cache

\* The value getCachedQuote(ticker) returns at time t
CachedQuote(cache, ticker, t) ==
  LET key == ToUpperCase(ticker)
  IN IF key \notin DOMAIN cache THEN NullQuote
     ELSE IF IsExpired(t - cache[key].fetchedAt) THEN NullQuote
     ELSE cache[key]

\* export function getCachedQuote(ticker)
GetCachedQuote(ticker) ==
  /\ quoteCache' = CacheAfterLookup(quoteCache, ticker, now)
  /\ served' = [fn |-> "getCachedQuote", ticker |-> ticker,
                ret |-> CachedQuote(quoteCache, ticker, now), upstream |-> FALSE, at |-> now]
  /\ UNCHANGED <<staged, ledger, nextId, edits, resp, calls, now>>

\* The response of GET /quote/:ticker
QuoteResponse(quote) ==
  IF quote = NullQuote
  THEN [op |-> "quote", status |-> 404, message |-> "Could not fetch quote"]
  ELSE [op |-> "quote", status |-> 200, ticker |-> quote.ticker, price |-> quote.price]

\* GET /quote/:ticker: fetchQuote(ticker) and the response.  On a miss the
\* upstream service is called: it throws or quotes a price, and delay is the
\* time the awaited calls take (the quote, the pause, the exchange rate).
GetQuote(ticker, outcome, price, delay) ==
  LET key == ToUpperCase(ticker)
      cached == CachedQuote(quoteCache, key, now)
      looked == CacheAfterLookup(quoteCache, key, now)
      fetched == [ticker |-> key, price |-> price, fetchedAt |-> now + delay]
  IN IF cached # NullQuote
     THEN /\ outcome = "ok" /\ price = 100 /\ delay = 0
          /\ quoteCache' = looked
          /\ served' = [fn |-> "fetchQuote", ticker |-> ticker, ret |-> cached,
                        upstream |-> FALSE, at |-> now]
          /\ resp' = QuoteResponse(cached)
          /\ UNCHANGED <<staged, ledger, nextId, edits, calls, now>>
     ELSE /\ now + delay <= MaxTicks * TickMs
          /\ outcome = "throws" => price = 100
          /\ now' = now + delay
          /\ quoteCache' = IF outcome = "ok" THEN MapSet(looked, key, fetched) ELSE looked
          /\ served' = [fn |-> "fetchQuote", ticker |-> ticker,
                        ret |-> IF outcome = "ok" THEN fetched ELSE NullQuote,
                        upstream |-> TRUE, at |-> now']
          /\ resp' = QuoteResponse(served'.ret)
          /\ UNCHANGED <<staged, ledger, nextId, edits, calls>>

\* Time passes.
Tick ==
  /\ now + TickMs <= MaxTicks * TickMs
  /\ now' = now + TickMs
  /\ UNCHANGED <<staged, ledger, nextId, edits, resp, calls, quoteCache, served>>

\* ----------------------------------------------------------- specification
Init ==
  /\ staged = <<>>
  /\ ledger = <<>>
  /\ nextId = 1
  /\ edits = 0
  /\ resp = None
  /\ calls = [s \in Sessions |-> Idle]
  /\ quoteCache = NoQuotes
  /\ now = 0
  /\ served = NoLookup

\* Statements of one request that may be told to throw (0: none).
FailPoints == 0..(MaxId + 2)

\* The server's clock, as a year-month.
Clock == {202602}

\* The uploads the clients send: every file under every target month by the
\* first user, one file by the second.
UploadRequests ==
  ({"u1"} \X Targets \X ExtractorOutputs) \cup {<<"u2", 202601, <<RawCafe>> >>}

\* The import pipeline: upload, delete, commit, and expenses entered by hand.
Next ==
  \/ \E user \in Users, target \in Targets, outcome \in {"rejected", "unreachable"} :
       UploadExtractFails(user, target, outcome)
  \/ \E rq \in UploadRequests, nowYM \in Clock, failAt \in FailPoints :
       Upload(rq[1], rq[2], rq[3], nowYM, failAt)
  \/ \E user \in Users, id \in 1..MaxId : DeleteStaged(user, id)
  \/ \E user \in Users, data \in ManualExpenses : CreateExpense(user, data)
  \/ \E user \in Users, ym \in Months, failAt \in FailPoints : Commit(user, ym, failAt)

Spec == Init /\ [][Next]_vars

\* The review session: one file staged per user, edited, deleted and committed.
EditUploads == {<<RawCafe>>, <<RawFraction>>}

EditNext ==
  \/ \E user \in Users, raw \in EditUploads, nowYM \in Clock :
       Upload(user, 202601, raw, nowYM, 0)
  \/ \E user \in Users, id \in 1..MaxId, body \in Bodies : UpdateStaged(user, id, body)
  \/ \E user \in Users, id \in 1..MaxId : DeleteStaged(user, id)
  \/ \E user \in Users : Commit(user, 202601, 0)

EditSpec == Init /\ [][EditNext]_vars

\* The ledger edited between staging and commit: expenses entered by hand
\* and deleted while February's file is staged.
LedgerUploads == {<<RawRent>>, <<RawRent, RawGym>>}

LedgerNext ==
  \/ \E user \in Users, raw \in LedgerUploads, nowYM \in Clock :
       Upload(user, 202602, raw, nowYM, 0)
  \/ \E user \in Users, data \in ManualExpenses : CreateExpense(user, data)
  \/ \E user \in Users, id \in 1..MaxId : DeleteExpense(user, id)
  \/ \E user \in Users : Commit(user, 202602, 0)

LedgerSpec == Init /\ [][LedgerNext]_vars

\* Two sessions of one user whose requests for one month overlap.
ConcUploads == {<<RawCafe>>, <<RawPadded>>}

ConcNext ==
  \/ \E s \in Sessions, raw \in ConcUploads : UploadPurge(s, "u1", 202601, raw)
  \/ \E s \in Sessions, nowYM \in Clock : UploadRead(s, nowYM)
  \/ \E s \in Sessions : UploadInsert(s)
  \/ \E s \in Sessions : CommitRead(s, "u1", 202601)
  \/ \E s \in Sessions : CommitInsert(s)
  \/ \E s \in Sessions : CommitPurge(s)

ConcSpec == Init /\ [][ConcNext]_vars

\* The quote cache under lookups, quote requests and the passing of time.
StockNext ==
  \/ \E ticker \in Tickers : GetCachedQuote(ticker)
  \/ \E ticker \in Tickers, outcome \in {"ok", "throws"}, price \in Prices,
        delay \in {0, TickMs} : GetQuote(ticker, outcome, price, delay)
  \/ Tick

StockSpec == Init /\ [][StockNext]_vars

\* ------------------------------------------------------------------ claims
Abs(n) == IF n < 0 THEN -n ELSE n

\* a ledger entry and a staged row (or entry) agree on the four fields of
\* the duplicate rule
SameTransaction(e, r) ==
  /\ e.userId = r.userId
  /\ e.yearMonth = r.yearMonth
  /\ e.amount = r.amount
  /\ Trim(e.title) = Trim(r.title)
  /\ e.source = r.source

\* C1: over any sequence of commits, a failed one included, no staged row
\* gives rise to more than one ledger entry.
C1_CommittedOnce ==
  \A i, j \in 1..Len(ledger) :
    (i # j /\ ledger[i].stagedId # NoId) => ledger[i].stagedId # ledger[j].stagedId

\* C2: a staged row that matches (month it is staged under, amount, trimmed
\* title, source) a ledger entry of its user that was there when it was
\* staged is flagged isDuplicate, and no commit inserts an entry for it.
C2_MatchIsFlagged ==
  /\ \A k \in 1..Len(staged), i \in 1..Len(ledger) :
       (ledger[i].id < staged[k].id /\ SameTransaction(ledger[i], staged[k]))
         => staged[k].isDuplicate
  /\ \A i, j \in 1..Len(ledger) :
       ~(/\ ledger[j].stagedId # NoId
         /\ ledger[i].id < ledger[j].stagedId
         /\ SameTransaction(ledger[i], ledger[j]))

\* C3: stageImport run twice in a row for the same (user, month) with the
\* same extractor output and an unchanged ledger leaves as many staged rows
\* for that month after the second run as after the first.
C3_RestageSameSize ==
  \A user \in Users, target \in Months, raw \in ExtractorOutputs, nowYM \in Clock :
    LET n == Len(FilterByMonth(raw, target))
        first == UploadStaged(staged, ledger, nextId, user, target, raw, nowYM, 0)
        second == UploadStaged(first, ledger, nextId + n, user, target, raw, nowYM, 0)
    IN Len(StagedOf(second, user, target)) = Len(StagedOf(first, user, target))

\* C3 witness: an upload has just staged rows for a month, and staging the
\* same file for that month again inserts fresh rows and keeps the count.
C3_Witness ==
  /\ resp.op = "upload" /\ resp.status = 200 /\ resp.staged > 0
  /\ \E user \in Users, target \in Months, raw \in ExtractorOutputs, nowYM \in Clock :
       LET again == UploadStaged(staged, ledger, nextId, user, target, raw, nowYM, 0)
       IN /\ Len(StagedOf(staged, user, target)) = resp.staged
          /\ Len(FilterByMonth(raw, target)) = resp.staged
          /\ Len(StagedOf(again, user, target)) = resp.staged
          /\ \A k \in 1..Len(again) : again[k].id >= nextId

C5_EmptyCommitChangesNothing ==
  [][\A user \in Users, ym \in Months, failAt \in FailPoints :
       (/\ Commit(user, ym, failAt)
        /\ \A k \in 1..Len(staged) :
             (staged[k].userId = user /\ staged[k].yearMonth = ym) => staged[k].isDuplicate)
         => (/\ resp'.status = 200
             /\ resp'.committed = 0
             /\ staged' = staged
             /\ ledger' = ledger)]_vars

\* C5 witness: a commit has answered committed = 0 while duplicate rows are
\* staged.
C5_Witness ==
  /\ resp.op = "commit" /\ resp.status = 200 /\ resp.committed = 0
  /\ \E k \in 1..Len(staged) : staged[k].isDuplicate

\* C6: when the extractor call fails the upload answers an error and the
\* staging store and the ledger are unchanged.
C6_ExtractionFailureChangesNothing ==
  [][\A user \in Users, target \in Targets, outcome \in {"rejected", "unreachable"} :
       UploadExtractFails(user, target, outcome)
         => (resp'.status >= 400 /\ staged' = staged /\ ledger' = ledger)]_vars

\* C6 witness: an upload has answered the extractor's error while rows are
\* staged.
C6_Witness ==
  /\ resp.op = "upload" /\ resp.status = 400 /\ resp.message = "Extraction failed"
  /\ Len(staged) > 0

\* C7: an upload that fails after the extraction leaves the staging store
\* as it was before the call.
C7_FailedUploadRestoresStaging ==
  [][\A rq \in UploadRequests, nowYM \in Clock, failAt \in FailPoints :
       (Upload(rq[1], rq[2], rq[3], nowYM, failAt) /\ resp'.status = 500)
         => staged' = staged]_vars

\* C8: a commit that fails partway leaves none of its entries in the ledger
\* and every staged row of the month staged.
C8_FailedCommitLeavesNoEntry ==
  [][\A user \in Users, ym \in Months, failAt \in FailPoints :
       (Commit(user, ym, failAt) /\ resp'.status = 500)
         => (ledger' = ledger /\ staged' = staged)]_vars

\* C11: in every reachable state amount, collectToMe and collectFromMe of
\* every staged row and of every ledger entry are integers, whatever the
\* extractor returns and whatever updateStaged requests are made.
C11_StoredAmountsAreIntegers ==
  /\ \A k \in 1..Len(staged) :
       /\ staged[k].amount % 2 = 0
       /\ staged[k].collectToMe % 2 = 0
       /\ staged[k].collectFromMe % 2 = 0
  /\ \A i \in 1..Len(ledger) :
       /\ ledger[i].amount % 2 = 0
       /\ ledger[i].collectToMe % 2 = 0
       /\ ledger[i].collectFromMe % 2 = 0

\* C11 witness: an update that carried a fractional value has been answered
\* with a validation error while rows are staged, all of them whole.
C11_Witness ==
  /\ resp.op = "update" /\ resp.status = 400
  /\ Len(staged) > 0

\* C12: an upload with a target month that succeeds stages exactly the raw transactions
\* dated in that month, in file order and each under the target month, and
\* answers staged + filteredByMonth = number of raw transactions and
\* duplicates = number of staged rows flagged isDuplicate.
C12_TargetedUploadStagesTheMonth ==
  [][\A rq \in UploadRequests, nowYM \in Clock :
       (/\ rq[2] # NoTarget
        /\ resp'.op = "upload" /\ resp'.status = 200
        /\ Upload(rq[1], rq[2], rq[3], nowYM, 0))
         => LET raw == rq[3]
                ofMonth == SelectSeq(raw, LAMBDA tx :
                             tx.date # BadDate /\ tx.date.y * 100 + tx.date.m = rq[2])
                new == SelectSeq(staged', LAMBDA r : r.id >= nextId)
            IN /\ Len(new) = Len(ofMonth)
               /\ \A k \in 1..Len(new) :
                    /\ new[k].userId = rq[1]
                    /\ new[k].yearMonth = rq[2]
                    /\ new[k].date = ofMonth[k].date
                    /\ new[k].amount = ofMonth[k].amount
                    /\ new[k].title = ofMonth[k].title
               /\ resp'.staged = Len(new)
               /\ resp'.staged + resp'.filteredByMonth = Len(raw)
               /\ resp'.duplicates = Cardinality({k \in 1..Len(new) : new[k].isDuplicate})
               /\ resp'.duplicates <= resp'.staged]_vars

\* C12 witness: an upload has answered that it staged some transactions and
\* filtered others out, and the rows it staged are those of one month.
C12_Witness ==
  /\ resp.op = "upload" /\ resp.status = 200
  /\ resp.staged > 0 /\ resp.filteredByMonth > 0
  /\ \E user \in Users, ym \in Months :
       /\ Len(StagedOf(staged, user, ym)) = resp.staged
       /\ \A k \in 1..Len(staged) :
            staged[k].id >= nextId - resp.staged
              => (staged[k].userId = user /\ staged[k].yearMonth = ym
                  /\ dateToYearMonth(staged[k].date) = ym)

\* C13: a commit that succeeds appends exactly one ledger entry per staged
\* row of (user, month) with isDuplicate = false, each a copy of its row's
\* date, amount, title, category, notes, source, isShared, collectToMe,
\* collectFromMe and yearMonth with source file "import"; committed is the
\* number of entries added and the entries that were there are untouched.
C13_CommitCopiesEachRowOnce ==
  [][\A user \in Users, ym \in Months :
       (resp'.op = "commit" /\ resp'.status = 200 /\ Commit(user, ym, 0))
         => LET rows == SelectSeq(staged, LAMBDA r :
                          r.userId = user /\ r.yearMonth = ym /\ ~r.isDuplicate)
                n == Len(rows)
            IN /\ Len(ledger') = Len(ledger) + n
               /\ SubSeq(ledger', 1, Len(ledger)) = ledger
               /\ resp'.committed = n
               /\ \A k \in 1..n :
                    LET e == ledger'[Len(ledger) + k]
                    IN /\ e.userId = user
                       /\ e.date = rows[k].date
                       /\ e.amount = rows[k].amount
                       /\ e.title = rows[k].title
                       /\ e.categoryId = rows[k].categoryId
                       /\ e.notes = rows[k].notes
                       /\ e.source = rows[k].source
                       /\ e.isShared = rows[k].isShared
                       /\ e.collectToMe = rows[k].collectToMe
                       /\ e.collectFromMe = rows[k].collectFromMe
                       /\ e.yearMonth = rows[k].yearMonth
                       /\ e.sourceFile = "import"
                       /\ \A i \in 1..Len(ledger) : ledger[i].id # e.id]_vars

\* C13 witness: a commit has answered with rows committed, the ledger held
\* entries before it and its last entry is an import that kept its source.
C13_Witness ==
  /\ resp.op = "commit" /\ resp.status = 200 /\ resp.committed > 0
  /\ Len(ledger) > resp.committed
  /\ ledger[Len(ledger)].sourceFile = "import"
  /\ ledger[Len(ledger)].source = "bank"
  /\ ledger[1].sourceFile = NULL

\* C14: an update (with a body the schema accepts) or a delete that names
\* an id that is no staged row of the calling user is answered not found
\* and leaves every staged row unchanged.
C14_MissingOrForeignIdNotFound ==
  [][/\ \A user \in Users, id \in 1..MaxId, body \in Bodies :
          (/\ resp'.op = "update"
           /\ UpdateStaged(user, id, body)
           /\ \A k \in 1..Len(staged) : ~(staged[k].id = id /\ staged[k].userId = user)
           /\ \A f \in DOMAIN body \cap {"amount", "collectToMe", "collectFromMe"} :
                body[f] % 2 = 0)
            => (resp'.status = 404 /\ staged' = staged)
     /\ \A user \in Users, id \in 1..MaxId :
          (/\ resp'.op = "delete"
           /\ DeleteStaged(user, id)
           /\ \A k \in 1..Len(staged) : ~(staged[k].id = id /\ staged[k].userId = user))
            => (resp'.status = 404 /\ staged' = staged)]_vars

\* C15: an update that is accepted gives exactly the fields present in the
\* request their requested values on the one addressed row; every field
\* absent from the request and every other staged row is unchanged.
C15_PartialUpdate ==
  [][\A user \in Users, id \in 1..MaxId, body \in Bodies :
       (resp'.op = "update" /\ resp'.status = 200 /\ UpdateStaged(user, id, body))
         => /\ Len(staged') = Len(staged)
            /\ \A k \in 1..Len(staged) :
                 IF staged[k].id = id /\ staged[k].userId = user
                 THEN \A f \in DOMAIN staged[k] :
                        staged'[k][f] =
                          IF f \in DOMAIN body
                               /\ f \in {"categoryId", "title", "amount", "date", "notes",
                                          "isShared", "collectToMe", "collectFromMe"}
                          THEN body[f] ELSE staged[k][f]
                 ELSE staged'[k] = staged[k]]_vars

\* C15 witness: an update has been accepted and a row holds the values of
\* two requests that each named one settlement field.
C15_Witness ==
  /\ resp.op = "update" /\ resp.status = 200
  /\ \E k \in 1..Len(staged) :
       /\ staged[k].collectToMe = 3000
       /\ staged[k].collectFromMe = 2000
       /\ staged[k].amount = -4500

\* the staged rows outside (user, month); with no month, outside the user
OutsideScope(st, user, ym) ==
  SelectSeq(st, LAMBDA r : ~(r.userId = user /\ (ym = NoTarget \/ r.yearMonth = ym)))

\* C16: an upload for (user, month) that succeeds and a commit for (user,
\* month), failed or not, leave the staged rows of other users and other months and
\* every ledger entry that was there unchanged; a commit adds entries of
\* (user, month) only; a row is flagged duplicate only of an entry of its
\* own user.
C16_ScopedToUserAndMonth ==
  [][/\ \A rq \in UploadRequests, nowYM \in Clock :
          (resp'.op = "upload" /\ resp'.status = 200 /\ Upload(rq[1], rq[2], rq[3], nowYM, 0))
            => /\ OutsideScope(staged', rq[1], rq[2]) = OutsideScope(staged, rq[1], rq[2])
               /\ ledger' = ledger
               /\ \A k \in 1..Len(staged') :
                    (staged'[k].id >= nextId /\ staged'[k].isDuplicate)
                      => \E i \in 1..Len(ledger) :
                           /\ ledger[i].id = staged'[k].duplicateOf
                           /\ ledger[i].userId = rq[1]
     /\ \A user \in Users, ym \in Months, failAt \in FailPoints :
          (resp'.op = "commit" /\ Commit(user, ym, failAt))
            => /\ OutsideScope(staged', user, ym) = OutsideScope(staged, user, ym)
               /\ Len(ledger') >= Len(ledger)
               /\ SubSeq(ledger', 1, Len(ledger)) = ledger
               /\ \A i \in (Len(ledger) + 1)..Len(ledger') :
                    ledger'[i].userId = user /\ ledger'[i].yearMonth = ym]_vars

\* C16 witness: an upload has staged, unflagged, a transaction that matches
\* a ledger entry of another user in month, amount, title and source.
C16_Witness ==
  /\ resp.op = "upload" /\ resp.status = 200 /\ resp.duplicates = 0
  /\ \E k \in 1..Len(staged), i \in 1..Len(ledger) :
       /\ staged[k].id = nextId - 1
       /\ ~staged[k].isDuplicate
       /\ ledger[i].userId # staged[k].userId
       /\ ledger[i].yearMonth = staged[k].yearMonth
       /\ ledger[i].amount = staged[k].amount
       /\ Trim(ledger[i].title) = Trim(staged[k].title)
       /\ ledger[i].source = staged[k].source

\* C17: the k-th row an upload stages has sortIndex k - 1, its position in
\* the filtered transaction list, settlement fields 0 and no category.
C17_SortIndexIsPosition ==
  [][\A rq \in UploadRequests, nowYM \in Clock :
       (resp'.op = "upload" /\ resp'.status = 200 /\ Upload(rq[1], rq[2], rq[3], nowYM, 0))
         => LET new == SelectSeq(staged', LAMBDA r : r.id >= nextId)
            IN \A k \in 1..Len(new) :
                 /\ new[k].sortIndex = k - 1
                 /\ new[k].collectToMe = 0
                 /\ new[k].collectFromMe = 0
                 /\ new[k].categoryId = NULL]_vars

\* C18: an upload of a file with a transaction whose date is missing or
\* unparseable, when no statement is made to throw, succeeds, inserts no row
\* for that transaction, counts it in filteredByMonth and stages the dated
\* transactions (those of the target month when there is one).
C18_UndatedIsFilteredOut ==
  [][\A rq \in UploadRequests, nowYM \in Clock :
       (/\ resp'.op = "upload"
        /\ \E k \in 1..Len(rq[3]) : rq[3][k].date = BadDate
        /\ Upload(rq[1], rq[2], rq[3], nowYM, 0))
         => LET new == SelectSeq(staged', LAMBDA r : r.id >= nextId)
                undated == SelectSeq(rq[3], LAMBDA tx : tx.date = BadDate)
                dated == SelectSeq(rq[3], LAMBDA tx :
                           /\ tx.date # BadDate
                           /\ rq[2] # NoTarget => tx.date.y * 100 + tx.date.m = rq[2])
            IN /\ resp'.status = 200
               /\ resp'.filteredByMonth >= Len(undated)
               /\ Len(new) = Len(dated)
               /\ \A k \in 1..Len(new) : new[k].date = dated[k].date]_vars

\* C19: a row an upload stages is flagged duplicate if and only if some
\* ledger entry of its user has its yearMonth, its amount, its title after
\* trimming and its source (none on both sides counts as equal); duplicateOf
\* is the first such entry in ledger order, and null when there is none.
C19_FlaggedIffLedgerMatch ==
  [][\A rq \in UploadRequests, nowYM \in Clock :
       (resp'.op = "upload" /\ resp'.status = 200 /\ Upload(rq[1], rq[2], rq[3], nowYM, 0))
         => \A k \in 1..Len(staged') :
              staged'[k].id >= nextId
                => LET row == staged'[k]
                       matches == {i \in 1..Len(ledger) :
                                     /\ ledger[i].userId = rq[1]
                                     /\ ledger[i].yearMonth = row.yearMonth
                                     /\ ledger[i].amount = row.amount
                                     /\ Trim(ledger[i].title) = Trim(row.title)
                                     /\ ledger[i].source = row.source}
                   IN /\ row.isDuplicate <=> matches # {}
                      /\ matches = {} => row.duplicateOf = NoId
                      /\ matches # {} =>
                           \E i \in matches :
                             /\ \A j \in matches : i <= j
                             /\ row.duplicateOf = ledger[i].id]_vars

\* C20: when an upload holds the same transaction twice and no ledger entry
\* of the user matches it, both rows are staged with isDuplicate = false
\* and the commit of their month that follows inserts a ledger entry for
\* each of the two.
C20_TwinsStagedAndCommittedTwice ==
  \A rq \in UploadRequests, nowYM \in Clock :
    LET new == UploadInserted(ledger, nextId, rq[1], rq[2], rq[3], nowYM, 0)
        afterUpload == UploadStaged(staged, ledger, nextId, rq[1], rq[2], rq[3], nowYM, 0)
    IN \A i, j \in 1..Len(new) :
         (/\ i < j
          /\ new[i].date = new[j].date
          /\ new[i].amount = new[j].amount
          /\ new[i].title = new[j].title
          /\ new[i].source = new[j].source
          /\ \A e \in 1..Len(ledger) :
               ~(/\ ledger[e].userId = rq[1]
                 /\ ledger[e].yearMonth = new[i].yearMonth
                 /\ ledger[e].amount = new[i].amount
                 /\ Trim(ledger[e].title) = Trim(new[i].title)
                 /\ ledger[e].source = new[i].source))
           => /\ ~new[i].isDuplicate
              /\ ~new[j].isDuplicate
              /\ LET entries == CommitInserted(afterUpload, nextId + Len(new), rq[1],
                                               new[i].yearMonth, 0)
                 IN \E a, b \in 1..Len(entries) :
                      /\ entries[a].stagedId = new[i].id
                      /\ entries[b].stagedId = new[j].id
                      /\ entries[a].id # entries[b].id

\* C20 witness: an upload has just staged the same transaction twice, both
\* rows unflagged, and a commit of their month inserts an entry for each.
C20_Witness ==
  /\ resp.op = "upload" /\ resp.status = 200 /\ resp.staged = 2 /\ resp.duplicates = 0
  /\ \E k \in 1..(Len(staged) - 1) :
       /\ staged[k].id = nextId - 2 /\ staged[k + 1].id = nextId - 1
       /\ staged[k].userId = staged[k + 1].userId
       /\ staged[k].yearMonth = staged[k + 1].yearMonth
       /\ staged[k].amount = staged[k + 1].amount
       /\ staged[k].title = staged[k + 1].title
       /\ ~staged[k].isDuplicate /\ ~staged[k + 1].isDuplicate
       /\ LET entries == CommitInserted(staged, nextId, staged[k].userId, staged[k].yearMonth, 0)
          IN {entries[a].stagedId : a \in 1..Len(entries)} = {nextId - 2, nextId - 1}

\* two commit calls of one (user, month), both answered, that read the same
\* rows to commit
CommitsOfSameRows(a, b) ==
  /\ a # b
  /\ calls[a].pc = "done" /\ calls[b].pc = "done"
  /\ calls[a].op = "commit" /\ calls[b].op = "commit"
  /\ calls[a].user = calls[b].user /\ calls[a].ym = calls[b].ym
  /\ calls[a].rows # <<>>
  /\ calls[a].rows = calls[b].rows

\* C21: two commit calls for the same (user, month) are not coordinated:
\* when both have read the same non-duplicate staged rows (the second read
\* before the first purged), every such row is in the ledger at least twice
\* and each call reports all of them as committed.
C21_OverlappingCommitsInsertTwice ==
  \A a, b \in Sessions :
    CommitsOfSameRows(a, b)
      => /\ \A k \in 1..Len(calls[a].rows) :
              Cardinality({i \in 1..Len(ledger) :
                             ledger[i].stagedId = calls[a].rows[k].id}) >= 2
         /\ calls[a].out.status = 200 /\ calls[a].out.committed = Len(calls[a].rows)
         /\ calls[b].out.status = 200 /\ calls[b].out.committed = Len(calls[b].rows)

\* C21 witness: both sessions' commits of one month have been answered with
\* one row committed each, and the ledger holds two entries copied from the
\* same staged row.
C21_Witness ==
  /\ CommitsOfSameRows("a", "b")
  /\ calls["a"].out.committed = 1 /\ calls["b"].out.committed = 1
  /\ \E i, j \in 1..Len(ledger) :
       /\ i # j
       /\ ledger[i].stagedId = ledger[j].stagedId
       /\ ledger[i].stagedId = calls["a"].rows[1].id
  /\ StagedOf(staged, calls["a"].user, calls["a"].ym) = <<>>

\* two uploads of one (user, target month), both answered with success, each
\* of which inserted its rows only after the other had purged the month
UploadsInterleaved(a, b) ==
  /\ a # b
  /\ calls[a].pc = "done" /\ calls[b].pc = "done"
  /\ calls[a].op = "upload" /\ calls[b].op = "upload"
  /\ calls[a].user = calls[b].user /\ calls[a].ym = calls[b].ym
  /\ calls[a].out.status = 200 /\ calls[b].out.status = 200
  /\ calls[a].ids # {} /\ calls[b].ids # {}
  /\ \A id \in calls[a].ids : id >= calls[b].purgedAt
  /\ \A id \in calls[b].ids : id >= calls[a].purgedAt

\* C22: two uploads for the same (user, target month) can interleave their
\* purge and insert steps: when each has inserted after the other's purge,
\* the month's staging holds the rows of both, more rows than either call
\* reported as staged.
C22_OverlappingUploadsStageBoth ==
  \A a, b \in Sessions :
    UploadsInterleaved(a, b)
      => LET month == StagedOf(staged, calls[a].user, calls[a].ym)
         IN /\ {month[k].id : k \in 1..Len(month)} = calls[a].ids \cup calls[b].ids
            /\ Len(month) = calls[a].out.staged + calls[b].out.staged
            /\ Len(month) > calls[a].out.staged
            /\ Len(month) > calls[b].out.staged

\* C22 witness: both sessions' uploads of one month have been answered, one
\* row staged each, and the month holds two rows.
C22_Witness ==
  /\ UploadsInterleaved("a", "b")
  /\ calls["a"].out.staged = 1 /\ calls["b"].out.staged = 1
  /\ Len(StagedOf(staged, calls["a"].user, calls["a"].ym)) = 2

\* C23: commit does not re-run duplicate detection: a staged row with
\* isDuplicate = false whose transaction the ledger already holds at commit
\* time (same user, month, amount, trimmed title and source) is inserted
\* all the same.
C23_CommitDoesNotRecheck ==
  [][\A user \in Users, ym \in Months :
       (resp'.op = "commit" /\ resp'.status = 200 /\ Commit(user, ym, 0))
         => \A k \in 1..Len(staged) :
              (/\ staged[k].userId = user
               /\ staged[k].yearMonth = ym
               /\ ~staged[k].isDuplicate
               /\ \E i \in 1..Len(ledger) : SameTransaction(ledger[i], staged[k]))
                => \E j \in (Len(ledger) + 1)..Len(ledger') :
                     /\ ledger'[j].stagedId = staged[k].id
                     /\ SameTransaction(ledger'[j], staged[k])]_vars

\* C23 witness: a commit has inserted an entry for a staged row although an
\* expense entered by hand after the row was staged holds the same
\* transaction.
C23_Witness ==
  /\ resp.op = "commit" /\ resp.status = 200 /\ resp.committed > 0
  /\ \E i, j \in 1..Len(ledger) :
       /\ ledger[i].stagedId = NoId
       /\ ledger[j].stagedId # NoId
       /\ ledger[j].stagedId < ledger[i].id
       /\ ledger[i].id < ledger[j].id
       /\ SameTransaction(ledger[i], ledger[j])

\* C24: picking "uncategorized" for a staged row on the review page (for one
\* row, or for each row of a bulk selection) leaves the row without a
\* category, whatever category it had.
C24_UncategorizedClearsCategory ==
  [][\A user \in Users, id \in 1..MaxId :
       (/\ resp'.op = "update"
        /\ UpdateStaged(user, id, CategoryUpdate("uncategorized")))
         => \A k \in 1..Len(staged') :
              (staged'[k].id = id /\ staged'[k].userId = user)
                => staged'[k].categoryId = NULL]_vars

\* C25: an upload without a target month stages each transaction under the
\* month of its own date and checks it against the ledger entries of that
\* month, for every transaction of the file and not only for those of the
\* first transaction's month.
C25_EachRowCheckedInItsOwnMonth ==
  [][\A rq \in UploadRequests, nowYM \in Clock :
       (/\ rq[2] = NoTarget
        /\ resp'.op = "upload" /\ resp'.status = 200
        /\ Upload(rq[1], rq[2], rq[3], nowYM, 0))
         => \A k \in 1..Len(staged') :
              staged'[k].id >= nextId
                => LET row == staged'[k]
                       ownMonth == row.date.y * 100 + row.date.m
                   IN /\ row.yearMonth = ownMonth
                      /\ row.isDuplicate <=>
                           \E i \in 1..Len(ledger) :
                             /\ ledger[i].userId = rq[1]
                             /\ ledger[i].yearMonth = ownMonth
                             /\ ledger[i].amount = row.amount
                             /\ Trim(ledger[i].title) = Trim(row.title)
                             /\ ledger[i].source = row.source]_vars

\* C26: import, commit, re-import is idempotent on the ledger: after an
\* upload of a file for month M that succeeds and the commit of M, with no
\* edit in between, a second upload of the same file for M flags every row
\* it stages as duplicate and a second commit of M adds no ledger entry.
C26_ReimportAddsNothing ==
  \A rq \in UploadRequests, nowYM \in Clock :
    LET user == rq[1]
        M == rq[2]
        raw == rq[3]
        n == Len(FilterByMonth(raw, M))
        new1 == UploadInserted(ledger, nextId, user, M, raw, nowYM, 0)
        staged1 == UploadStaged(staged, ledger, nextId, user, M, raw, nowYM, 0)
        entries1 == CommitInserted(staged1, nextId + n, user, M, 0)
        ledger2 == ledger \o entries1
        staged2 == CommitStaged(staged1, user, M, 0)
        id3 == nextId + n + Len(entries1)
        new3 == UploadInserted(ledger2, id3, user, M, raw, nowYM, 0)
        staged3 == UploadStaged(staged2, ledger2, id3, user, M, raw, nowYM, 0)
    IN (M # NoTarget /\ Len(new1) = n)
         => /\ Len(new3) = n
            /\ \A k \in 1..n : new3[k].isDuplicate
            /\ \A k \in 1..Len(staged3) :
                 (staged3[k].userId = user /\ staged3[k].yearMonth = M)
                   => staged3[k].isDuplicate
            /\ CommitInserted(staged3, id3 + n, user, M, 0) = <<>>

\* C26 witness: a file was staged and committed, staged again for the same
\* month and flagged duplicate of the entry its first commit made, and the
\* second commit has answered committed = 0 with that entry still the only
\* one of its transaction.
C26_Witness ==
  /\ resp.op = "commit" /\ resp.status = 200 /\ resp.committed = 0
  /\ \E k \in 1..Len(staged), i \in 1..Len(ledger) :
       /\ staged[k].isDuplicate
       /\ staged[k].duplicateOf = ledger[i].id
       /\ ledger[i].stagedId # NoId
       /\ ledger[i].stagedId < staged[k].id
       /\ SameTransaction(ledger[i], staged[k])
       /\ \A j \in 1..Len(ledger) : SameTransaction(ledger[j], staged[k]) => j = i

\* C27: no transaction is silently lost at commit: whenever a commit
\* discards a staged row because it is flagged isDuplicate, the ledger at
\* that moment holds an entry of the same user and month with equal amount,
\* trimmed title and source, even if ledger entries were deleted between
\* staging and commit.
C27_DiscardedRowIsInLedger ==
  \A user \in Users, ym \in Months :
    LET after == CommitStaged(staged, user, ym, 0)
    IN \A k \in 1..Len(staged) :
         (/\ staged[k].userId = user
          /\ staged[k].yearMonth = ym
          /\ staged[k].isDuplicate
          /\ \A j \in 1..Len(after) : after[j].id # staged[k].id)
           => \E i \in 1..Len(ledger) : SameTransaction(ledger[i], staged[k])

\* C28: isDuplicate, duplicateOf, yearMonth and the owning user of a staged
\* row are fixed when it is staged: no update request, whatever its body,
\* changes any of them, and a row flagged duplicate is not among the rows a
\* commit would take after the update.
C28_UpdateKeepsBookkeeping ==
  [][/\ (resp'.op = "update" /\ resp'.status # 200) => staged' = staged
     /\ \A user \in Users, id \in 1..MaxId, body \in Bodies :
       (resp'.op = "update" /\ resp'.status = 200 /\ UpdateStaged(user, id, body))
         => /\ Len(staged') = Len(staged)
            /\ \A k \in 1..Len(staged) :
                 /\ staged'[k].id = staged[k].id
                 /\ staged'[k].isDuplicate = staged[k].isDuplicate
                 /\ staged'[k].duplicateOf = staged[k].duplicateOf
                 /\ staged'[k].yearMonth = staged[k].yearMonth
                 /\ staged'[k].userId = staged[k].userId
            /\ \A k \in 1..Len(staged) :
                 (staged[k].id = id /\ staged[k].userId = user /\ staged[k].isDuplicate)
                   => LET after == ToCommit(staged', user, staged[k].yearMonth)
                      IN \A j \in 1..Len(after) : after[j].id # id]_vars

\* C28 witness: an update has been accepted on a row flagged duplicate, and
\* the edited row is still flagged, of its user and of its month.
C28_Witness ==
  /\ resp.op = "update" /\ resp.status = 200
  /\ resp.row.isDuplicate /\ resp.row.collectToMe = 3000
  /\ \E k \in 1..Len(staged) :
       /\ staged[k] = resp.row
       /\ staged[k].duplicateOf # NoId
       /\ staged[k].yearMonth = 202601
       /\ ToCommit(staged, staged[k].userId, staged[k].yearMonth) = <<>>

\* C29: in every reachable state the category of a staged row, and of a
\* ledger entry created by commit, is unset or a category of the row's own
\* user: no update attaches another user's category to a staged row.
C29_CategoryOfOwnUser ==
  /\ \A k \in 1..Len(staged) :
       staged[k].categoryId # NULL => CategoryOwner[staged[k].categoryId] = staged[k].userId
  /\ \A i \in 1..Len(ledger) :
       (ledger[i].sourceFile = "import" /\ ledger[i].categoryId # NULL)
         => CategoryOwner[ledger[i].categoryId] = ledger[i].userId

\* the cache holds an entry for the ticker that is no older than the TTL
FreshEntry(ticker) ==
  /\ ToUpperCase(ticker) \in DOMAIN quoteCache
  /\ now - quoteCache[ToUpperCase(ticker)].fetchedAt <= 24 * 60 * 60 * 1000

\* C30: the quote cache never serves a stale entry.  getCachedQuote and
\* fetchQuote return a cached quote only if its age is at most 24 hours; an
\* older entry is evicted by the lookup, and fetchQuote then calls the
\* upstream service and caches the quote only when that call succeeds (a
\* failed call returns null and leaves no entry); a fresh hit makes no
\* upstream call.
C30_NoStaleQuoteServed ==
  [][/\ \A ticker \in Tickers :
          GetCachedQuote(ticker)
            => /\ ~served'.upstream
               /\ IF FreshEntry(ticker)
                  THEN /\ served'.ret = quoteCache[ToUpperCase(ticker)]
                       /\ served'.at - served'.ret.fetchedAt <= 24 * 60 * 60 * 1000
                       /\ quoteCache' = quoteCache
                  ELSE /\ served'.ret = NullQuote
                       /\ ToUpperCase(ticker) \notin DOMAIN quoteCache'
     /\ \A ticker \in Tickers, outcome \in {"ok", "throws"}, price \in Prices,
           delay \in {0, TickMs} :
          GetQuote(ticker, outcome, price, delay)
            => IF FreshEntry(ticker)
               THEN /\ ~served'.upstream
                    /\ served'.ret = quoteCache[ToUpperCase(ticker)]
                    /\ served'.at - served'.ret.fetchedAt <= 24 * 60 * 60 * 1000
                    /\ quoteCache' = quoteCache
                    /\ resp'.status = 200 /\ resp'.price = served'.ret.price
               ELSE /\ served'.upstream
                    /\ outcome = "ok" =>
                         /\ served'.ret.price = price
                         /\ served'.ret.fetchedAt = now'
                         /\ quoteCache'[ToUpperCase(ticker)] = served'.ret
                         /\ resp'.status = 200 /\ resp'.price = price
                    /\ outcome = "throws" =>
                         /\ served'.ret = NullQuote
                         /\ ToUpperCase(ticker) \notin DOMAIN quoteCache'
                         /\ resp'.status = 404]_vars

\* C30 witness: fetchQuote has answered from the cache, without an upstream
\* call, a quote that is exactly 24 hours old, the only entry the cache
\* holds.
C30_Witness ==
  /\ served.fn = "fetchQuote" /\ ~served.upstream
  /\ served.ret # NullQuote
  /\ served.at = now
  /\ now - served.ret.fetchedAt = 24 * 60 * 60 * 1000
  /\ quoteCache[served.ret.ticker] = served.ret
  /\ DOMAIN quoteCache = {served.ret.ticker}
  /\ resp.op = "quote" /\ resp.status = 200

\* the settlement fields of a row after the body is applied exceed its amount
SettlementExceeds(row, body) ==
  LET toMe == IF "collectToMe" \in DOMAIN body THEN body.collectToMe ELSE row.collectToMe
      fromMe == IF "collectFromMe" \in DOMAIN body THEN body.collectFromMe
                ELSE row.collectFromMe
  IN /\ DOMAIN body \cap {"collectToMe", "collectFromMe"} # {}
     /\ toMe + fromMe > Abs(row.amount)

\* C9: an update that sets collectToMe or collectFromMe so that their sum
\* exceeds the row's amount is rejected with a validation error and the row
\* is left unchanged.
C9_SettlementOverAmountRejected ==
  [][\A user \in Users, id \in 1..MaxId, body \in Bodies :
       (/\ UpdateStaged(user, id, body)
        /\ \E k \in Addressed(staged, user, id) : SettlementExceeds(staged[k], body))
         => (resp'.status = 400 /\ staged' = staged)]_vars

\* C10: every staged row and every ledger entry created by commit has
\* collectToMe + collectFromMe <= |amount|.
C10_SettlementWithinAmount ==
  /\ \A k \in 1..Len(staged) :
       staged[k].collectToMe + staged[k].collectFromMe <= Abs(staged[k].amount)
  /\ \A i \in 1..Len(ledger) :
       ledger[i].sourceFile = "import"
         => ledger[i].collectToMe + ledger[i].collectFromMe <= Abs(ledger[i].amount)
====
